---------------------------- MODULE Spec2Model ----------------------------
(***************************************************************************)
(* Packet dispatch and packet schemas of the play phase, protocol 1.17.1   *)
(* (protocol/src/version/v1_17_1/game.rs).                                 *)
(*                                                                         *)
(* A byte source is a sequence of bytes.  TLC's integers are 32 bits wide, *)
(* so a fixed-width number is held as its big-endian 16-bit limbs          *)
(* (a u64 is four limbs, a u8 one limb holding the byte).                  *)
(***************************************************************************)
EXTENDS Integers, Sequences, FiniteSets, TLC

\* ------------------------------------------------------------------------
\* Field codec capability (Decoder / Encoder of the primitive kinds).

FieldOk(v, r) == [ok |-> TRUE, val |-> v, rest |-> r, err |-> ""]

FieldErr(e) == [ok |-> FALSE, val |-> <<>>, rest |-> <<>>, err |-> e]

Drop(bytes, n) == SubSeq(bytes, n + 1, Len(bytes))

\* Big-endian bytes to 16-bit limbs, most significant first.
FromBE(bytes) ==
    IF Len(bytes) = 1 THEN <<bytes[1]>>
    ELSE [i \in 1..(Len(bytes) \div 2) |-> bytes[2 * i - 1] * 256 + bytes[2 * i]]

\* 16-bit limbs to n big-endian bytes.
ToBE(val, n) ==
    IF n = 1 THEN <<val[1]>>
    ELSE [i \in 1..n |-> IF i % 2 = 1 THEN val[(i + 1) \div 2] \div 256
                                      ELSE val[i \div 2] % 256]

ReadFixed(n, bytes) ==
    IF Len(bytes) < n THEN FieldErr("UnexpectedEof")
    ELSE FieldOk(FromBE(SubSeq(bytes, 1, n)), Drop(bytes, n))

ReadBool(bytes) ==
    IF Len(bytes) < 1 THEN FieldErr("UnexpectedEof")
    ELSE IF bytes[1] = 0 THEN FieldOk(FALSE, Drop(bytes, 1))
    ELSE IF bytes[1] = 1 THEN FieldOk(TRUE, Drop(bytes, 1))
    ELSE FieldErr("NonBoolValue")

\* The index of the byte that ends a varint (continuation bit clear) among
\* the first five bytes, 0 when there is none.
VarIntEnd(bytes) ==
    LET ends == {i \in 1..5 : i <= Len(bytes) /\ bytes[i] < 128}
    IN IF ends = {} THEN 0 ELSE CHOOSE i \in ends : \A j \in ends : i <= j

\* A varint is an i32: seven bits a byte, least significant group first.  The
\* value is held as <<high 16 bits, low 16 bits>>.  Only the shortest encoding
\* of a value is accepted.
ReadVarInt(bytes) ==
    LET n == VarIntEnd(bytes)
        g(i) == IF i <= n THEN bytes[i] % 128 ELSE 0
        lo28 == g(1) + g(2) * 128 + g(3) * 16384 + g(4) * 2097152
    IN IF n = 0
       THEN IF Len(bytes) >= 5 THEN FieldErr("VarIntTooLong")
            ELSE FieldErr("UnexpectedEof")
       ELSE IF (n > 1 /\ bytes[n] = 0) \/ (n = 5 /\ bytes[5] > 15)
       THEN FieldErr("VarIntNotCanonical")
       ELSE FieldOk(<<g(5) * 4096 + lo28 \div 65536, lo28 % 65536>>, Drop(bytes, n))

WriteVarInt(val) ==
    LET hi == val[1]
        lo == val[2]
        g == <<lo % 128, (lo \div 128) % 128, (lo \div 16384) + (hi % 32) * 4,
               (hi \div 32) % 128, hi \div 4096>>
        used == {i \in 1..5 : g[i] # 0}
        n == IF used = {} THEN 1 ELSE CHOOSE i \in used : \A j \in used : j <= i
    IN [i \in 1..n |-> IF i < n THEN g[i] + 128 ELSE g[i]]

\* The varint as a count: a negative i32 cast to usize is larger than any
\* byte source of the model.
Count(val, bytes) == IF val[1] >= 32768 THEN Len(bytes) + 1 ELSE val[1] * 65536 + val[2]

Cont(b) == b \in 128..191

\* Continuation bytes a UTF-8 lead byte asks for, -1 for a byte that cannot lead.
Need(b) ==
    IF b < 128 THEN 0
    ELSE IF b \in 194..223 THEN 1
    ELSE IF b \in 224..239 THEN 2
    ELSE IF b \in 240..244 THEN 3
    ELSE -1

SecondOk(lead, b) ==
    IF lead = 224 THEN b \in 160..191
    ELSE IF lead = 237 THEN b \in 128..159
    ELSE IF lead = 240 THEN b \in 144..191
    ELSE IF lead = 244 THEN b \in 128..143
    ELSE Cont(b)

IsUtf8(s) ==
    \A i \in 1..Len(s) :
        IF Cont(s[i])
        THEN \E k \in 1..3 : /\ i - k >= 1
                             /\ Need(s[i - k]) >= k
                             /\ \A j \in (i - k + 1)..(i - 1) : Cont(s[j])
        ELSE /\ Need(s[i]) >= 0
             /\ i + Need(s[i]) <= Len(s)
             /\ \A j \in 1..Need(s[i]) : Cont(s[i + j])
             /\ Need(s[i]) >= 1 => SecondOk(s[i], s[i + 1])

\* A string: varint byte length, then that many UTF-8 bytes.  max_length is
\* the field's modifier, {} when the field declares none.
ReadString(max_length, bytes) ==
    LET l == ReadVarInt(bytes)
        n == Count(l.val, bytes)
    IN IF ~l.ok THEN l
       ELSE IF \E m \in max_length : n > m THEN FieldErr("StringTooLong")
       ELSE IF Len(l.rest) < n THEN FieldErr("UnexpectedEof")
       ELSE IF ~IsUtf8(SubSeq(l.rest, 1, n)) THEN FieldErr("Utf8Error")
       ELSE FieldOk(SubSeq(l.rest, 1, n), Drop(l.rest, n))

WriteString(max_length, s) ==
    IF \E m \in max_length : Len(s) > m
    THEN [ok |-> FALSE, bytes |-> <<>>, err |-> "StringTooLong"]
    ELSE [ok |-> TRUE, bytes |-> WriteVarInt(<<Len(s) \div 65536, Len(s) % 65536>>) \o s,
          err |-> ""]

RECURSIVE ReadStrings(_, _, _, _)
ReadStrings(k, max_length, bytes, acc) ==
    IF k = 0 THEN FieldOk(acc, bytes)
    ELSE LET s == ReadString(max_length, bytes)
         IN IF s.ok THEN ReadStrings(k - 1, max_length, s.rest, Append(acc, s.val))
            ELSE s

\* A sequence of strings: varint count, then the strings.
ReadStringSeq(max_length, bytes) ==
    LET c == ReadVarInt(bytes)
    IN IF ~c.ok THEN c
       ELSE ReadStrings(Count(c.val, bytes), max_length, c.rest, <<>>)

RECURSIVE WriteStrings(_, _)
WriteStrings(max_length, strs) ==
    IF strs = <<>> THEN [ok |-> TRUE, bytes |-> <<>>, err |-> ""]
    ELSE LET h == WriteString(max_length, Head(strs))
             t == WriteStrings(max_length, Tail(strs))
         IN IF ~h.ok THEN h
            ELSE IF ~t.ok THEN t
            ELSE [ok |-> TRUE, bytes |-> h.bytes \o t.bytes, err |-> ""]

WriteStringSeq(max_length, strs) ==
    LET t == WriteStrings(max_length, strs)
    IN IF ~t.ok THEN t
       ELSE [ok |-> TRUE,
             bytes |-> WriteVarInt(<<Len(strs) \div 65536, Len(strs) % 65536>>) \o t.bytes,
             err |-> ""]

\* A name of the tag tree: u16 byte length, then the bytes.
ReadTagName(bytes) ==
    IF Len(bytes) < 2 THEN FieldErr("UnexpectedEof")
    ELSE LET n == bytes[1] * 256 + bytes[2]
         IN IF Len(bytes) < 2 + n THEN FieldErr("UnexpectedEof")
            ELSE FieldOk(SubSeq(bytes, 3, 2 + n), Drop(bytes, 2 + n))

\* The entries of a compound tag up to its end tag (0).  The model reads the
\* byte tag (1): name, one byte of payload.  Every other tag type is outside
\* the fragment of the tree format the model covers and is reported malformed.
RECURSIVE ReadTagEntries(_, _)
ReadTagEntries(bytes, acc) ==
    IF Len(bytes) < 1 THEN FieldErr("UnexpectedEof")
    ELSE IF bytes[1] = 0 THEN FieldOk(acc, Drop(bytes, 1))
    ELSE IF bytes[1] # 1 THEN FieldErr("TagDecodeError")
    ELSE LET nm == ReadTagName(Drop(bytes, 1))
         IN IF ~nm.ok THEN nm
            ELSE IF Len(nm.rest) < 1 THEN FieldErr("UnexpectedEof")
            ELSE ReadTagEntries(Drop(nm.rest, 1), Append(acc, <<nm.val, nm.rest[1]>>))

\* An embedded tag tree: compound tag id (10), root name, entries, end tag.
ReadCompoundTag(bytes) ==
    IF Len(bytes) < 1 THEN FieldErr("UnexpectedEof")
    ELSE IF bytes[1] # 10 THEN FieldErr("TagDecodeError")
    ELSE LET nm == ReadTagName(Drop(bytes, 1))
         IN IF ~nm.ok THEN nm
            ELSE LET es == ReadTagEntries(nm.rest, <<>>)
                 IN IF ~es.ok THEN es
                    ELSE FieldOk(<<nm.val, es.val>>, es.rest)

WriteTagName(name) == <<Len(name) \div 256, Len(name) % 256>> \o name

RECURSIVE WriteTagEntries(_)
WriteTagEntries(es) ==
    IF es = <<>> THEN <<0>>
    ELSE <<1>> \o WriteTagName(Head(es)[1]) \o <<Head(es)[2]>> \o WriteTagEntries(Tail(es))

WriteCompoundTag(tag) == <<10>> \o WriteTagName(tag[1]) \o WriteTagEntries(tag[2])


\* ------------------------------------------------------------------------
\* Packet schemas: the structs of the file, fields in declared order.

F(name, kind, max_length) == [name |-> name, kind |-> kind, max_length |-> max_length]

ServerBoundPluginMessage ==
    <<F("channel", "String", {32767}), F("data", "Vec<u8>", {})>>

ClientBoundPluginMessage ==
    <<F("channel", "String", {32767}), F("data", "Vec<u8>", {})>>

NamedSoundEffect ==
    <<F("sound_name", "String", {32767}), F("sound_category", "var_int", {}),
      F("effect_pos_x", "i32", {}), F("effect_pos_y", "i32", {}),
      F("effect_pos_z", "i32", {}), F("volume", "f32", {}), F("pitch", "f32", {})>>

\* world_names carries no max_length attribute (the bound is a TODO).
JoinGame ==
    <<F("entity_id", "u32", {}), F("hardcore", "bool", {}), F("game_mode", "u8", {}),
      F("previous_game_mode", "u8", {}), F("world_names", "Vec<String>", {}),
      F("dimension_codec", "CompoundTag", {}), F("dimension", "CompoundTag", {}),
      F("world_name", "String", {32767}), F("hashed_seed", "i64", {}),
      F("max_players", "var_int", {}), F("view_distance", "var_int", {}),
      F("reduced_debug_info", "bool", {}), F("enable_respawn_screen", "bool", {}),
      F("is_debug", "bool", {}), F("is_flat", "bool", {})>>

Respawn ==
    <<F("dimension", "CompoundTag", {}), F("world_name", "String", {32767}),
      F("hashed_seed", "i64", {}), F("game_mode", "u8", {}),
      F("previous_game_mode", "u8", {}), F("is_debug", "bool", {}),
      F("is_flat", "bool", {}), F("copy_metadata", "bool", {})>>

PlayerPositionAndLook ==
    <<F("x", "f64", {}), F("y", "f64", {}), F("z", "f64", {}), F("yaw", "f32", {}),
      F("pitch", "f32", {}), F("flags", "u8", {}), F("teleport_id", "var_int", {}),
      F("dismount_vehicle", "bool", {})>>

TimeUpdate == <<F("world_age", "i64", {}), F("time_of_day", "i64", {})>>

SetTitleText == <<F("text", "Message", {})>>

SetTitleSubtitle == <<F("text", "Message", {})>>

SetTitleTimes == <<F("fade_in", "i32", {}), F("stay", "i32", {}), F("fade_out", "i32", {})>>

\* SpawnPosition with its two fields declared the other way round.
SpawnPositionAngleFirst == <<F("angle", "f32", {}), F("position", "u64", {})>>

SpawnPosition == <<F("position", "u64", {}), F("angle", "f32", {})>>

\* The structs this file declares.
Declared ==
    {"ServerBoundPluginMessage", "ClientBoundPluginMessage", "NamedSoundEffect",
     "JoinGame", "Respawn", "PlayerPositionAndLook", "TimeUpdate", "SetTitleText",
     "SetTitleSubtitle", "SetTitleTimes", "SpawnPosition"}

\* The structs re-exported from 1.14.4; their layouts are not in this file.
Reexported ==
    {"BossBar", "ChunkData", "ClientBoundChatMessage", "ClientBoundKeepAlive",
     "EntityAction", "GameDisconnect", "ServerBoundAbilities",
     "ServerBoundChatMessage", "ServerBoundKeepAlive"}

Fields(schema) ==
    CASE schema = "ServerBoundPluginMessage" -> ServerBoundPluginMessage
      [] schema = "ClientBoundPluginMessage" -> ClientBoundPluginMessage
      [] schema = "NamedSoundEffect" -> NamedSoundEffect
      [] schema = "JoinGame" -> JoinGame
      [] schema = "Respawn" -> Respawn
      [] schema = "PlayerPositionAndLook" -> PlayerPositionAndLook
      [] schema = "TimeUpdate" -> TimeUpdate
      [] schema = "SetTitleText" -> SetTitleText
      [] schema = "SetTitleSubtitle" -> SetTitleSubtitle
      [] schema = "SetTitleTimes" -> SetTitleTimes
      [] schema = "SpawnPosition" -> SpawnPosition

\* The schemas decoded byte by byte here: declared in the file, every field
\* of a kind the field codec covers (a chat Message is rich text, external).
ByteLevel ==
    {s \in Declared : \A i \in 1..Len(Fields(s)) : Fields(s)[i].kind # "Message"}

Width(kind) ==
    CASE kind = "u8" -> 1
      [] kind \in {"u32", "i32", "f32"} -> 4
      [] kind \in {"u64", "i64", "f64"} -> 8

FixedKinds == {"u8", "u32", "i32", "f32", "u64", "i64", "f64"}

ReadField(f, bytes) ==
    CASE f.kind \in FixedKinds -> ReadFixed(Width(f.kind), bytes)
      [] f.kind = "bool" -> ReadBool(bytes)
      [] f.kind = "var_int" -> ReadVarInt(bytes)
      [] f.kind = "String" -> ReadString(f.max_length, bytes)
      [] f.kind = "Vec<u8>" -> FieldOk(bytes, <<>>)
      [] f.kind = "Vec<String>" -> ReadStringSeq(f.max_length, bytes)
      [] f.kind = "CompoundTag" -> ReadCompoundTag(bytes)

WriteOk(bytes) == [ok |-> TRUE, bytes |-> bytes, err |-> ""]

WriteField(f, val) ==
    CASE f.kind \in FixedKinds -> WriteOk(ToBE(val, Width(f.kind)))
      [] f.kind = "bool" -> WriteOk(IF val THEN <<1>> ELSE <<0>>)
      [] f.kind = "var_int" -> WriteOk(WriteVarInt(val))
      [] f.kind = "String" -> WriteString(f.max_length, val)
      [] f.kind = "Vec<u8>" -> WriteOk(val)
      [] f.kind = "Vec<String>" -> WriteStringSeq(f.max_length, val)
      [] f.kind = "CompoundTag" -> WriteOk(WriteCompoundTag(val))

StructOk(vals, r) == [ok |-> TRUE, fields |-> vals, rest |-> r, err |-> ""]

StructErr(e) == [ok |-> FALSE, fields |-> <<>>, rest |-> <<>>, err |-> e]

\* derive(Decoder): the fields are read in declared order; the first failure
\* is returned and no struct is built.
RECURSIVE DecodeFields(_, _, _)
DecodeFields(fs, bytes, acc) ==
    IF fs = <<>> THEN StructOk(acc, bytes)
    ELSE LET r == ReadField(Head(fs), bytes)
         IN IF r.ok THEN DecodeFields(Tail(fs), r.rest, Append(acc, r.val))
            ELSE StructErr(r.err)

\* derive(Encoder): the fields are written in declared order.
RECURSIVE EncodeFields(_, _)
EncodeFields(fs, vals) ==
    IF fs = <<>> THEN WriteOk(<<>>)
    ELSE LET h == WriteField(Head(fs), Head(vals))
             t == EncodeFields(Tail(fs), Tail(vals))
         IN IF ~h.ok THEN h
            ELSE IF ~t.ok THEN t
            ELSE WriteOk(h.bytes \o t.bytes)

FieldErrors ==
    {"UnexpectedEof", "StringTooLong", "VarIntTooLong", "VarIntNotCanonical",
     "NonBoolValue", "Utf8Error", "TagDecodeError"}

\* T::decode(reader): the outcomes it can have on these bytes.  A schema whose
\* layout is outside the file decodes to a value or fails with a field error;
\* which, the model leaves open (its value is held as no fields, and where it
\* leaves the byte source is not tracked).
SchemaDecode(schema, bytes) ==
    IF schema \in ByteLevel THEN {DecodeFields(Fields(schema), bytes, <<>>)}
    ELSE {StructOk(<<>>, <<>>)} \cup {StructErr(e) : e \in FieldErrors}

\* The bytes an external encoder may write for a schema outside ByteLevel.
ExternalBytes == {<<>>, <<0>>, <<1, 2>>}

\* T::encode(writer): the outcomes it can have on these field values.
SchemaEncode(schema, vals) ==
    IF schema \in ByteLevel THEN {EncodeFields(Fields(schema), vals)}
    ELSE {WriteOk(b) : b \in ExternalBytes}

\* ------------------------------------------------------------------------
\* Dispatch: GameServerBoundPacket and GameClientBoundPacket.

Opcode == 0..255

ServerBoundVariants ==
    {"ServerBoundChatMessage", "ServerBoundPluginMessage", "ServerBoundKeepAlive",
     "ServerBoundAbilities"}

ClientBoundVariants ==
    {"ClientBoundChatMessage", "JoinGame", "ClientBoundKeepAlive", "ChunkData",
     "GameDisconnect", "BossBar", "EntityAction", "ClientBoundPluginMessage",
     "NamedSoundEffect", "Respawn", "PlayerPositionAndLook", "SpawnPosition",
     "SetTitleSubtitle", "SetTitleText", "TimeUpdate", "SetTitleTimes"}

Ok(variant, fields) ==
    [ok |-> TRUE, variant |-> variant, fields |-> fields, err |-> "", type_id |-> -1]

Err(e) == [ok |-> FALSE, variant |-> "", fields |-> <<>>, err |-> e, type_id |-> -1]

UnknownPacketType(type_id) ==
    [ok |-> FALSE, variant |-> "", fields |-> <<>>, err |-> "UnknownPacketType",
     type_id |-> type_id]

\* get_type_id with keep-alive moved to 0x10 while decode keeps 0x0F.
ServerBoundGetTypeIdKeepAliveMoved(variant) ==
    CASE variant = "ServerBoundChatMessage" -> 3
      [] variant = "ServerBoundPluginMessage" -> 10
      [] variant = "ServerBoundKeepAlive" -> 16
      [] variant = "ServerBoundAbilities" -> 25

\* get_type_id with abilities given the opcode of keep-alive.
ServerBoundGetTypeIdDuplicate(variant) ==
    CASE variant = "ServerBoundChatMessage" -> 3
      [] variant = "ServerBoundPluginMessage" -> 10
      [] variant = "ServerBoundKeepAlive" -> 15
      [] variant = "ServerBoundAbilities" -> 15

\* GameServerBoundPacket::get_type_id
ServerBoundGetTypeId(variant) ==
    CASE variant = "ServerBoundChatMessage" -> 3      \* 0x03
      [] variant = "ServerBoundPluginMessage" -> 10   \* 0x0A
      [] variant = "ServerBoundKeepAlive" -> 15       \* 0x0F
      [] variant = "ServerBoundAbilities" -> 25       \* 0x19

\* get_type_id with the opcodes of TimeUpdate and SetTitleText exchanged.
ClientBoundGetTypeIdExchanged(variant) ==
    CASE variant = "ClientBoundChatMessage" -> 14
      [] variant = "ClientBoundPluginMessage" -> 24
      [] variant = "NamedSoundEffect" -> 25
      [] variant = "GameDisconnect" -> 26
      [] variant = "ClientBoundKeepAlive" -> 32
      [] variant = "ChunkData" -> 33
      [] variant = "JoinGame" -> 37
      [] variant = "BossBar" -> 13
      [] variant = "EntityAction" -> 27
      [] variant = "PlayerPositionAndLook" -> 56
      [] variant = "Respawn" -> 61
      [] variant = "SpawnPosition" -> 75
      [] variant = "SetTitleSubtitle" -> 87
      [] variant = "TimeUpdate" -> 89
      [] variant = "SetTitleText" -> 88
      [] variant = "SetTitleTimes" -> 90

\* GameClientBoundPacket::get_type_id
ClientBoundGetTypeId(variant) ==
    CASE variant = "ClientBoundChatMessage" -> 14      \* 0x0E
      [] variant = "ClientBoundPluginMessage" -> 24    \* 0x18
      [] variant = "NamedSoundEffect" -> 25            \* 0x19
      [] variant = "GameDisconnect" -> 26              \* 0x1A
      [] variant = "ClientBoundKeepAlive" -> 32        \* 0x20
      [] variant = "ChunkData" -> 33                   \* 0x21
      [] variant = "JoinGame" -> 37                    \* 0x25
      [] variant = "BossBar" -> 13                     \* 0x0D
      [] variant = "EntityAction" -> 27                \* 0x1B
      [] variant = "PlayerPositionAndLook" -> 56       \* 0x38
      [] variant = "Respawn" -> 61                     \* 0x3D
      [] variant = "SpawnPosition" -> 75               \* 0x4B
      [] variant = "SetTitleSubtitle" -> 87            \* 0x57
      [] variant = "TimeUpdate" -> 88                  \* 0x58
      [] variant = "SetTitleText" -> 89                \* 0x59
      [] variant = "SetTitleTimes" -> 90               \* 0x5A

\* The match arm GameServerBoundPacket::decode takes: the struct it decodes
\* and wraps, "_" for the wildcard arm.
ServerBoundArm(type_id) ==
    CASE type_id = 3 -> "ServerBoundChatMessage"
      [] type_id = 10 -> "ServerBoundPluginMessage"
      [] type_id = 15 -> "ServerBoundKeepAlive"
      [] type_id = 25 -> "ServerBoundAbilities"
      [] OTHER -> "_"

\* The match arm GameClientBoundPacket::decode takes.
ClientBoundArm(type_id) ==
    CASE type_id = 14 -> "ClientBoundChatMessage"
      [] type_id = 24 -> "ClientBoundPluginMessage"
      [] type_id = 25 -> "NamedSoundEffect"
      [] type_id = 26 -> "GameDisconnect"
      [] type_id = 32 -> "ClientBoundKeepAlive"
      [] type_id = 33 -> "ChunkData"
      [] type_id = 37 -> "JoinGame"
      [] type_id = 61 -> "Respawn"
      [] type_id = 56 -> "PlayerPositionAndLook"
      [] type_id = 75 -> "SpawnPosition"
      [] type_id = 87 -> "SetTitleSubtitle"
      [] type_id = 88 -> "TimeUpdate"
      [] type_id = 89 -> "SetTitleText"
      [] type_id = 90 -> "SetTitleTimes"
      [] OTHER -> "_"

\* The arm without the `?`: a failed struct decode still yields a packet.
WrapSwallowsError(variant, r) == Ok(variant, r.fields)

\* let x = T::decode(reader)?; Ok(Variant(x)): a failure of T::decode is
\* returned as it is, a value is wrapped in the arm's variant.
Wrap(variant, r) == IF r.ok THEN Ok(variant, r.fields) ELSE Err(r.err)

NotCalled == [ok |-> FALSE, fields |-> <<>>, rest |-> <<>>, err |-> "NotCalled"]

\* The wildcard arm losing the opcode it was handed.
WildcardDropsId(type_id) == [inner |-> NotCalled, out |-> UnknownPacketType(0)]

\* What the wildcard arm returns.
Wildcard(type_id) == [inner |-> NotCalled, out |-> UnknownPacketType(type_id)]

\* GameServerBoundPacket::decode: the outcomes, each with what the arm's
\* T::decode returned (inner) and what decode returns (out).
ServerBoundDecode(type_id, reader) ==
    LET arm == ServerBoundArm(type_id)
    IN IF arm = "_" THEN {Wildcard(type_id)}
       ELSE {[inner |-> r, out |-> Wrap(arm, r)] : r \in SchemaDecode(arm, reader)}

\* GameClientBoundPacket::decode
ClientBoundDecode(type_id, reader) ==
    LET arm == ClientBoundArm(type_id)
    IN IF arm = "_" THEN {Wildcard(type_id)}
       ELSE {[inner |-> r, out |-> Wrap(arm, r)] : r \in SchemaDecode(arm, reader)}

\* trait_packet_id!(T, id)
WithPacketId ==
    {"ServerBoundPluginMessage", "ClientBoundPluginMessage", "NamedSoundEffect",
     "JoinGame", "PlayerPositionAndLook", "Respawn", "SpawnPosition",
     "SetTitleSubtitle", "TimeUpdate", "SetTitleText", "SetTitleTimes"}

PACKET_ID(T) ==
    CASE T = "ServerBoundPluginMessage" -> 10    \* 0x0A
      [] T = "ClientBoundPluginMessage" -> 24    \* 0x18
      [] T = "NamedSoundEffect" -> 25            \* 0x19
      [] T = "JoinGame" -> 38                    \* 0x26
      [] T = "PlayerPositionAndLook" -> 56       \* 0x38
      [] T = "Respawn" -> 61                     \* 0x3D
      [] T = "SpawnPosition" -> 75               \* 0x4B
      [] T = "SetTitleSubtitle" -> 87            \* 0x57
      [] T = "TimeUpdate" -> 88                  \* 0x58
      [] T = "SetTitleText" -> 89                \* 0x59
      [] T = "SetTitleTimes" -> 90               \* 0x5A

\* ------------------------------------------------------------------------
\* The byte sources and packet values the callers of the model supply.

\* world_names elements in the JoinGame byte sources: 0..MaxNames.
MaxNames == 2

\* Bytes of plugin message data in the byte sources: 0..MaxData.
MaxData == 2

\* The varint length prefix of n bytes, n < 2^21.
LenPrefix(n) ==
    IF n < 128 THEN <<n>>
    ELSE IF n < 16384 THEN <<(n % 128) + 128, n \div 128>>
    ELSE <<(n % 128) + 128, ((n \div 128) % 128) + 128, n \div 16384>>

\* A string field of n bytes, each the ASCII letter c.
Text(n, c) == LenPrefix(n) \o [i \in 1..n |-> c]

RECURSIVE Texts(_)
Texts(lens) ==
    IF lens = <<>> THEN <<>>
    ELSE Texts(SubSeq(lens, 1, Len(lens) - 1)) \o Text(lens[Len(lens)], 96 + Len(lens))

EmptyTag == <<10, 0, 0, 0>>

\* The tree named "d" with the byte entry "x" = 7.
SmallTag == <<10, 0, 1, 100, 1, 0, 1, 120, 7, 0>>

\* A JoinGame payload whose world_names elements have the byte lengths
\* `names` and whose world_name has `world_name` bytes.
JoinGameBytes(names, world_name) ==
    <<0, 0, 1, 2>> \o <<1>> \o <<0>> \o <<255>>
    \o LenPrefix(Len(names)) \o Texts(names)
    \o SmallTag \o EmptyTag
    \o Text(world_name, 119)
    \o <<128, 1, 2, 3, 4, 5, 6, 7>> \o <<20>> \o <<172, 2>>
    \o <<0, 1, 0, 1>>

PluginMessageBytes(n) == Text(2, 99) \o [i \in 1..n |-> 200 + i]

NamedSoundEffectBytes ==
    Text(2, 115) \o <<3>> \o <<0, 0, 0, 8>> \o <<255, 255, 255, 248>> \o <<0, 1, 0, 0>>
    \o <<63, 128, 0, 0>> \o <<64, 0, 0, 1>>

RespawnBytes ==
    SmallTag \o Text(2, 119) \o <<1, 2, 3, 4, 5, 6, 7, 8>> \o <<1>> \o <<2>> \o <<0, 1, 1>>

PlayerPositionAndLookBytes ==
    <<64, 9, 33, 251, 84, 68, 45, 24>> \o <<192, 80, 0, 0, 0, 0, 0, 1>>
    \o <<1, 2, 3, 4, 5, 6, 7, 8>> \o <<66, 180, 0, 0>> \o <<194, 52, 0, 1>>
    \o <<31>> \o <<255, 255, 255, 255, 15>> \o <<1>>

TimeUpdateBytes == <<0, 1, 2, 3, 4, 5, 6, 7, 248, 249, 250, 251, 252, 253, 254, 255>>

SetTitleTimesBytes == <<0, 0, 0, 10, 0, 0, 1, 44, 255, 255, 255, 236>>

SpawnPositionBytes == <<1, 35, 69, 103, 137, 171, 205, 239, 66, 180, 18, 52>>

\* Byte sequences that match a schema exactly.
WellFormed(schema) ==
    CASE schema \in {"ServerBoundPluginMessage", "ClientBoundPluginMessage"} ->
             {PluginMessageBytes(n) : n \in 0..MaxData}
      [] schema = "NamedSoundEffect" -> {NamedSoundEffectBytes}
      [] schema = "JoinGame" -> {JoinGameBytes([i \in 1..c |-> 1], 2) : c \in 0..MaxNames}
      [] schema = "Respawn" -> {RespawnBytes}
      [] schema = "PlayerPositionAndLook" -> {PlayerPositionAndLookBytes}
      [] schema = "TimeUpdate" -> {TimeUpdateBytes}
      [] schema = "SetTitleTimes" -> {SetTitleTimesBytes}
      [] schema = "SpawnPosition" -> {SpawnPositionBytes}

\* The longest of a schema's well-formed byte sequences.
Base(schema) ==
    CHOOSE b \in WellFormed(schema) : \A c \in WellFormed(schema) : Len(c) <= Len(b)

\* A byte source that ends early.
Truncated(b) == {SubSeq(b, 1, n) : n \in 0..(Len(b) - 1)}

\* A byte source with one byte overwritten by 0xFF.
Corrupted(b) == {[b EXCEPT ![i] = 255] : i \in 1..Len(b)}

Readers ==
    UNION {WellFormed(s) \cup Truncated(Base(s)) \cup Corrupted(Base(s))
           \cup {Base(s) \o <<9>>} : s \in ByteLevel}

\* The bound the world_name field declares, and the length one past it.
LongLengths == UNION {{m, m + 1} : m \in JoinGame[8].max_length}

\* JoinGame payloads with one long string: one element of world_names at
\* position p of c, or world_name.
LongReaders ==
    {JoinGameBytes([i \in 1..c |-> IF i = p THEN n ELSE 1], 2) :
        <<c, p, n>> \in {t \in (1..MaxNames) \X (1..MaxNames) \X LongLengths : t[2] <= t[1]}}
    \cup {JoinGameBytes(<<1>>, n) : n \in LongLengths}

\* What arrives: any opcode with any of the short byte sources, and the long
\* JoinGame payloads under the opcodes the file gives JoinGame.
Inputs ==
    (Opcode \X Readers)
    \cup ({ClientBoundGetTypeId("JoinGame"), PACKET_ID("JoinGame")} \X LongReaders)

\* The field values a caller puts in a packet it builds.
SampleFields(schema) ==
    IF schema \in ByteLevel
    THEN {d.fields : d \in {e \in UNION {SchemaDecode(schema, b) : b \in WellFormed(schema)} : e.ok}}
    ELSE {<<>>}

\* ------------------------------------------------------------------------
\* The calls.

VARIABLES
    pc,         \* "idle", "received" (opcode and payload at hand), "decoded", "built"
    direction,  \* "ServerBound" or "ClientBound" once a packet enum is in use
    type_id,    \* the opcode handed to decode
    reader,     \* the payload handed to decode
    inner,      \* what the arm's T::decode returned
    result,     \* the Result of decode, or Ok of the packet a caller built
    id,         \* what get_type_id returned, -1 before the call
    sink,       \* what encode wrote
    sent,       \* the variant a caller sent, "" for a payload from elsewhere
    via         \* how the sender chose the opcode: "get_type_id" or "PACKET_ID"

vars == <<pc, direction, type_id, reader, inner, result, id, sink, sent, via>>

NoResult == Err("NotCalled")

NoSink == [ok |-> FALSE, bytes |-> <<>>, err |-> "NotCalled"]

Init ==
    /\ pc = "idle"
    /\ direction = "none"
    /\ type_id = -1
    /\ reader = <<>>
    /\ inner = NotCalled
    /\ result = NoResult
    /\ id = -1
    /\ sink = NoSink
    /\ sent = ""
    /\ via = ""

\* The framing layer hands over an opcode and a payload.
Receive ==
    /\ pc = "idle"
    /\ \E in \in Inputs :
        /\ type_id' = in[1]
        /\ reader' = in[2]
    /\ pc' = "received"
    /\ UNCHANGED <<direction, inner, result, id, sink, sent, via>>

\* GameServerBoundPacket::decode(type_id, reader)
DecodeServerBound ==
    /\ pc = "received"
    /\ direction \in {"none", "ServerBound"}
    /\ \E d \in ServerBoundDecode(type_id, reader) :
        /\ inner' = d.inner
        /\ result' = d.out
    /\ direction' = "ServerBound"
    /\ pc' = "decoded"
    /\ UNCHANGED <<type_id, reader, id, sink, sent, via>>

\* GameClientBoundPacket::decode(type_id, reader)
DecodeClientBound ==
    /\ pc = "received"
    /\ direction \in {"none", "ClientBound"}
    /\ \E d \in ClientBoundDecode(type_id, reader) :
        /\ inner' = d.inner
        /\ result' = d.out
    /\ direction' = "ClientBound"
    /\ pc' = "decoded"
    /\ UNCHANGED <<type_id, reader, id, sink, sent, via>>

\* A caller builds a packet value of one of the enum's variants.
BuildServerBound ==
    /\ pc = "idle"
    /\ \E v \in ServerBoundVariants : \E f \in SampleFields(v) : result' = Ok(v, f)
    /\ direction' = "ServerBound"
    /\ pc' = "built"
    /\ UNCHANGED <<type_id, reader, inner, id, sink, sent, via>>

BuildClientBound ==
    /\ pc = "idle"
    /\ \E v \in ClientBoundVariants : \E f \in SampleFields(v) : result' = Ok(v, f)
    /\ direction' = "ClientBound"
    /\ pc' = "built"
    /\ UNCHANGED <<type_id, reader, inner, id, sink, sent, via>>

\* GameServerBoundPacket::get_type_id(&self)
GetTypeIdServerBound ==
    /\ pc \in {"decoded", "built"}
    /\ direction = "ServerBound"
    /\ result.ok
    /\ id = -1
    /\ id' = ServerBoundGetTypeId(result.variant)
    /\ UNCHANGED <<pc, direction, type_id, reader, inner, result, sink, sent, via>>

\* GameClientBoundPacket::get_type_id(&self)
GetTypeIdClientBound ==
    /\ pc \in {"decoded", "built"}
    /\ direction = "ClientBound"
    /\ result.ok
    /\ id = -1
    /\ id' = ClientBoundGetTypeId(result.variant)
    /\ UNCHANGED <<pc, direction, type_id, reader, inner, result, sink, sent, via>>

\* The packet's struct is encoded.
Encode ==
    /\ pc \in {"decoded", "built"}
    /\ result.ok
    /\ sink = NoSink
    /\ sink' \in SchemaEncode(result.variant, result.fields)
    /\ UNCHANGED <<pc, direction, type_id, reader, inner, result, id, sent, via>>

\* The sender frames the encoded packet under the opcode get_type_id gave;
\* the peer receives it.
SendByTypeId ==
    /\ pc = "built"
    /\ id # -1
    /\ sink.ok
    /\ type_id' = id
    /\ reader' = sink.bytes
    /\ sent' = result.variant
    /\ via' = "get_type_id"
    /\ pc' = "received"
    /\ result' = NoResult
    /\ id' = -1
    /\ sink' = NoSink
    /\ UNCHANGED <<direction, inner>>

\* The sender frames the encoded packet under its struct's PacketId constant.
SendByPacketId ==
    /\ pc = "built"
    /\ sink.ok
    /\ result.variant \in WithPacketId
    /\ type_id' = PACKET_ID(result.variant)
    /\ reader' = sink.bytes
    /\ sent' = result.variant
    /\ via' = "PACKET_ID"
    /\ pc' = "received"
    /\ result' = NoResult
    /\ id' = -1
    /\ sink' = NoSink
    /\ UNCHANGED <<direction, inner>>

Next ==
    \/ Receive
    \/ DecodeServerBound
    \/ DecodeClientBound
    \/ BuildServerBound
    \/ BuildClientBound
    \/ GetTypeIdServerBound
    \/ GetTypeIdClientBound
    \/ Encode
    \/ SendByTypeId
    \/ SendByPacketId

Spec == Init /\ [][Next]_vars

\* ------------------------------------------------------------------------
\* Properties.

Variants(dir) == IF dir = "ServerBound" THEN ServerBoundVariants ELSE ClientBoundVariants

GetTypeId(dir, variant) ==
    IF dir = "ServerBound" THEN ServerBoundGetTypeId(variant)
    ELSE ClientBoundGetTypeId(variant)

Arm(dir, op) == IF dir = "ServerBound" THEN ServerBoundArm(op) ELSE ClientBoundArm(op)

\* Whether a direction's decode has an arm for the opcode.
Registered(dir, op) == Arm(dir, op) # "_"

Decoded == pc = "decoded"

Identified == id # -1

\* C1: decode of either direction, handed an opcode it has no arm for, returns
\* UnknownPacketType carrying exactly that opcode, whatever the bytes: no
\* packet, no other error, and no struct decode is attempted.
C1_UnknownOpcode ==
    (Decoded /\ ~Registered(direction, type_id))
        => /\ result = UnknownPacketType(type_id)
           /\ inner = NotCalled

C1_Witness ==
    /\ Decoded
    /\ direction = "ServerBound"
    /\ type_id = 255
    /\ Len(reader) > 0
    /\ result = UnknownPacketType(255)

\* C2: a packet that decode returned reports, through get_type_id, the opcode
\* it was decoded under.
C2_TypeIdOfDecoded ==
    (Decoded /\ result.ok /\ Identified) => id = type_id

C2_Witness ==
    /\ Decoded
    /\ result.ok
    /\ result.variant = "JoinGame"
    /\ Identified
    /\ id = type_id

\* C3: the opcode get_type_id gives a variant is one decode of the same
\* direction accepts and dispatches to that variant (never UnknownPacketType),
\* and every opcode decode accepts is the opcode of exactly one variant.
C3_Bijective ==
    /\ (Decoded /\ via = "get_type_id")
           => /\ result.err # "UnknownPacketType"
              /\ Arm(direction, type_id) = sent
    /\ (Decoded /\ Registered(direction, type_id))
           => Cardinality({v \in Variants(direction) : GetTypeId(direction, v) = type_id}) = 1

\* C4: within a direction no two variants share an opcode; across directions
\* an opcode may be shared: 0x19 is ServerBoundAbilities one way and
\* NamedSoundEffect the other.
C4_OpcodesUnique ==
    Identified
        => /\ \A v \in Variants(direction) :
                  GetTypeId(direction, v) = id => v = result.variant
           /\ (id = 25 /\ direction = "ServerBound") => result.variant = "ServerBoundAbilities"
           /\ (id = 25 /\ direction = "ClientBound") => result.variant = "NamedSoundEffect"

C4_Witness ==
    /\ Identified
    /\ id = 25
    /\ direction = "ClientBound"
    /\ result.variant = "NamedSoundEffect"

\* C5: ClientBound opcode 0x26 is JoinGame: decode under 0x26 runs the
\* JoinGame schema (a truncated payload is a field error, not
\* UnknownPacketType) and get_type_id of a JoinGame is 0x26.
C5_JoinGameOpcode ==
    /\ (Decoded /\ direction = "ClientBound" /\ type_id = 38)
           => /\ result.err # "UnknownPacketType"
              /\ inner \in SchemaDecode("JoinGame", reader)
    /\ (Identified /\ direction = "ClientBound" /\ result.variant = "JoinGame")
           => id = 38

\* The opcodes listed for 1.17.1, JoinGame's apart.
ListedOpcode(variant) ==
    CASE variant = "ServerBoundChatMessage" -> 3
      [] variant = "ServerBoundPluginMessage" -> 10
      [] variant = "ServerBoundKeepAlive" -> 15
      [] variant = "ServerBoundAbilities" -> 25
      [] variant = "ClientBoundChatMessage" -> 14
      [] variant = "BossBar" -> 13
      [] variant = "ClientBoundPluginMessage" -> 24
      [] variant = "NamedSoundEffect" -> 25
      [] variant = "GameDisconnect" -> 26
      [] variant = "EntityAction" -> 27
      [] variant = "ClientBoundKeepAlive" -> 32
      [] variant = "ChunkData" -> 33
      [] variant = "PlayerPositionAndLook" -> 56
      [] variant = "Respawn" -> 61
      [] variant = "SpawnPosition" -> 75
      [] variant = "SetTitleSubtitle" -> 87
      [] variant = "TimeUpdate" -> 88
      [] variant = "SetTitleText" -> 89
      [] variant = "SetTitleTimes" -> 90

\* C6: get_type_id returns the listed opcode for each of the four ServerBound
\* and the fifteen listed ClientBound packets.
C6_ListedOpcodes ==
    (Identified /\ result.variant # "JoinGame") => id = ListedOpcode(result.variant)

C6_Witness ==
    /\ Identified
    /\ result.variant = "BossBar"
    /\ id = 13

\* C7: when the struct decode of the arm taken fails, decode returns that
\* same error and no packet: not a partly or default-filled packet, not
\* UnknownPacketType.
C7_ErrorPropagated ==
    (Decoded /\ Registered(direction, type_id))
        => /\ inner \in SchemaDecode(Arm(direction, type_id), reader)
           /\ ~inner.ok => /\ result = Err(inner.err)
                           /\ result.err \in FieldErrors

C7_Witness ==
    /\ Decoded
    /\ direction = "ClientBound"
    /\ Arm(direction, type_id) = "JoinGame"
    /\ inner.err = "NonBoolValue"
    /\ result = Err("NonBoolValue")

C9_WorldNamesBounded ==
    (Decoded /\ Arm(direction, type_id) = "JoinGame" /\ Len(reader) > 32767)
        => \A c \in 1..MaxNames : \A p \in 1..c : \A n \in {32767, 32768} :
               reader = JoinGameBytes([i \in 1..c |-> IF i = p THEN n ELSE 1], 2)
                   => (result.ok <=> n <= 32767)

\* C10: for every struct with a PacketId constant, get_type_id of its variant
\* returns the constant, and a packet sent under the constant is dispatched
\* to the same struct.
C10_PacketIdAgrees ==
    /\ (Identified /\ result.variant \in WithPacketId)
           => id = PACKET_ID(result.variant)
    /\ (Decoded /\ via = "PACKET_ID")
           => /\ result.err # "UnknownPacketType"
              /\ Arm(direction, type_id) = sent

=============================================================================
